---- MODULE Spec2Model ----
(***************************************************************************)
(* Model of the Project Manager's "Add a User Repository" dialog           *)
(* (GemRepo/GemRepoAddDialog.cpp) and of the platform helpers declared in  *)
(* GemCatalog/GemInfo.h.                                                   *)
(*                                                                         *)
(* The dialog reads two cached JSON indices while it is constructed, shows *)
(* them in two single-selection list views, copies the current row of a    *)
(* list into the path line edit whenever that list's selection model emits *)
(* selectionChanged, and ends with accept() or reject().                   *)
(*                                                                         *)
(* A cache file is modelled by what QFile::open and QJsonDocument::fromJson*)
(* make of it: it cannot be opened (missing, unreadable), or it opens and  *)
(* its text is not JSON, a top-level array, or a top-level object.         *)
(***************************************************************************)
EXTENDS Integers, Sequences, FiniteSets

VARIABLES
    dialog,                 \* "new" before the constructor ran, then "open", "accepted", "rejected"
    curatedFile,            \* the file GetCacheFile(".../curated.json") names
    uncuratedFile,          \* the file GetCacheFile(".../uncurated.json") names
    m_curatedReposModel,    \* rows of the curated list: a sequence of display texts
    m_uncuratedReposModel,  \* rows of the uncurated list
    curatedCurrent,         \* m_curatedRepos->currentIndex(), 0 = invalid index
    curatedSelected,        \* the selected row of m_curatedRepos, 0 = none
    uncuratedCurrent,       \* m_uncuratedRepos->currentIndex(), 0 = invalid index
    uncuratedSelected,      \* the selected row of m_uncuratedRepos, 0 = none
    m_repoPath,             \* m_repoPath->lineEdit()->text()
    lastEvent,              \* the last thing the user or the caller did (history)
    lastWritten,            \* the last text handed to the line edit (history)
    platformStrings,        \* argument of GetPlatformsFromStringList
    platformCall,           \* the last platform helper call and its argument
    platformResult          \* the flags the last platform helper call returned

dialogVars == <<dialog, curatedFile, uncuratedFile, m_curatedReposModel, m_uncuratedReposModel,
                curatedCurrent, curatedSelected, uncuratedCurrent, uncuratedSelected,
                m_repoPath, lastEvent, lastWritten>>
platformVars == <<platformStrings, platformCall, platformResult>>
vars == <<dialog, curatedFile, uncuratedFile, m_curatedReposModel, m_uncuratedReposModel,
          curatedCurrent, curatedSelected, uncuratedCurrent, uncuratedSelected,
          m_repoPath, lastEvent, lastWritten, platformStrings, platformCall, platformResult>>

(***************************************************************************)
(* Bounds.                                                                 *)
(***************************************************************************)
\* longest JSON array in a cache file of the loading specification
MaxLen == 2
\* longest list handed to GetPlatformsFromStringList
MaxList == 2

(***************************************************************************)
(* JSON values (QJsonValue).  A value has a type; a String carries its     *)
(* text, an Array its elements.                                            *)
(***************************************************************************)
JString(s) == [type |-> "String", str |-> s, items |-> <<>>]
JOther(t) == [type |-> t, str |-> "", items |-> <<>>]
JArray(a) == [type |-> "Array", str |-> "", items |-> a]

NonStringTypes == {"Double", "Bool", "Null", "Object", "Array"}
StringTexts == {"a", " b "}
\* what an element of an index array can be
Elements == {JString(s) : s \in StringTexts} \cup {JOther(t) : t \in NonStringTypes}

SeqsUpTo(S, n) == UNION {[1..k -> S] : k \in 0..n}

\* the keys an index object may hold
Keys == {"curated", "uncurated"}
EmptyObject == [k \in {} |-> JOther("Null")]

\* file states: open() fails, or open() succeeds and the text parses to `content`
MissingFile == [kind |-> "missing", content |-> [type |-> "invalid", obj |-> EmptyObject]]
UnreadableFile == [kind |-> "unreadable", content |-> [type |-> "invalid", obj |-> EmptyObject]]
InvalidJsonFile == [kind |-> "text", content |-> [type |-> "invalid", obj |-> EmptyObject]]
TopLevelArrayFile == [kind |-> "text", content |-> [type |-> "array", obj |-> EmptyObject]]
ObjectFile(o) == [kind |-> "text", content |-> [type |-> "object", obj |-> o]]

(***************************************************************************)
(* The Qt calls of the loading block, GemRepoAddDialog.cpp:92-110.         *)
(***************************************************************************)
\* QFile::open(ReadOnly | Text)
Open(file) == file.kind = "text"

\* QJsonDocument::fromJson followed by document.object(): text that is not
\* JSON gives a null document, and a document that is no object gives an
\* empty object
DocumentObject(file) ==
    IF file.content.type = "object" THEN file.content.obj ELSE EmptyObject

\* QJsonValue::toString(): the text of a String, the null string otherwise
ToString(value) == IF value.type = "String" THEN value.str ELSE ""

\* jsonObject.contains(key) && jsonObject[key].isArray()
HasArray(jsonObject, key) ==
    key \in DOMAIN jsonObject /\ jsonObject[key].type = "Array"

\* the range-for over the array: one appendRow(new QStandardItem(value.toString()))
\* per element, in order
RECURSIVE AppendRows(_, _)
MutAppendRowsFront(array, model) ==
    IF array = <<>> THEN model
    ELSE AppendRows(Tail(array), <<ToString(Head(array))>> \o model)
AppendRows(array, model) ==
    IF array = <<>> THEN model
    ELSE AppendRows(Tail(array), Append(model, ToString(Head(array))))

\* toArray(): the elements of an Array value, none for any other value
ToArray(value) == IF value.type = "Array" THEN value.items ELSE <<>>

\* the whole block: the rows the model holds after it
LoadRepos(file, key) ==
    IF Open(file)
    THEN LET jsonObject == DocumentObject(file)
         IN  IF HasArray(jsonObject, key)
             THEN AppendRows(ToArray(jsonObject[key]), <<>>)
             ELSE <<>>
    ELSE <<>>

MutLoadCuratedOtherKey(file) == LoadRepos(file, "uncurated")
LoadCurated(file) == LoadRepos(file, "curated")
LoadUncurated(file) == LoadRepos(file, "uncurated")

(***************************************************************************)
(* The dialog.                                                             *)
(***************************************************************************)
\* what the user may type into the path field
Typed == {"", " x "}

\* the values the index objects of the dialog specification hold under a key
DialogValues == {JString("not-an-array"),
                 JArray(<<JString("a"), JOther("Double")>>),
                 JArray(<<JString(" b "), JString("a")>>)}
IndexObjects(values) == UNION {[D -> values] : D \in SUBSET Keys}
FailedFiles == {MissingFile, UnreadableFile, InvalidJsonFile, TopLevelArrayFile}
DialogFiles == FailedFiles \cup {ObjectFile(o) : o \in IndexObjects(DialogValues)}

Event(kind, list, row, text) == [kind |-> kind, list |-> list, row |-> row, text |-> text]

\* index.data(Qt::DisplayRole).toString(): the row's text, the null string
\* for an invalid index
DisplayText(model, index) == IF index \in 1..Len(model) THEN model[index] ELSE ""

\* a getter that strips surrounding white space
Trimmed(text) == CASE text = " x " -> "x" [] text = " b " -> "b" [] OTHER -> text
MutGetRepoPathTrimmed == Trimmed(m_repoPath)
\* GemRepoAddDialog::GetRepoPath
GetRepoPath == m_repoPath

\* a constructor that gives up when a cache file cannot be opened
MutConstructRequiresFiles ==
    /\ dialog = "new"
    /\ Open(curatedFile) /\ Open(uncuratedFile)
    /\ dialog' = "open"
    /\ m_repoPath' = ""
    /\ lastWritten' = ""
    /\ m_curatedReposModel' = LoadCurated(curatedFile)
    /\ m_uncuratedReposModel' = LoadUncurated(uncuratedFile)
    /\ curatedCurrent' = 0 /\ curatedSelected' = 0
    /\ uncuratedCurrent' = 0 /\ uncuratedSelected' = 0
    /\ lastEvent' = [kind |-> "construct", list |-> "", row |-> 0, text |-> ""]
    /\ UNCHANGED <<curatedFile, uncuratedFile, platformVars>>

\* the constructor, GemRepoAddDialog.cpp:28-208
Construct ==
    /\ dialog = "new"
    /\ dialog' = "open"
    /\ m_repoPath' = ""
    /\ lastWritten' = ""
    /\ m_curatedReposModel' = LoadCurated(curatedFile)
    /\ m_uncuratedReposModel' = LoadUncurated(uncuratedFile)
    /\ curatedCurrent' = 0 /\ curatedSelected' = 0
    /\ uncuratedCurrent' = 0 /\ uncuratedSelected' = 0
    /\ lastEvent' = Event("construct", "", 0, "")
    /\ UNCHANGED <<curatedFile, uncuratedFile, platformVars>>

\* a handler that also clears the other list's selection
MutCuratedSelectionClearsOther ==
    /\ m_repoPath' = DisplayText(m_curatedReposModel, curatedCurrent')
    /\ lastWritten' = DisplayText(m_curatedReposModel, curatedCurrent')
    /\ uncuratedSelected' = 0
    /\ UNCHANGED <<m_curatedReposModel, m_uncuratedReposModel, uncuratedCurrent>>
\* the lambda connected to m_curatedRepos' selectionChanged
CuratedSelectionChanged ==
    /\ m_repoPath' = DisplayText(m_curatedReposModel, curatedCurrent')
    /\ lastWritten' = DisplayText(m_curatedReposModel, curatedCurrent')
    /\ UNCHANGED <<m_curatedReposModel, m_uncuratedReposModel, uncuratedCurrent, uncuratedSelected>>

\* the lambda connected to m_uncuratedRepos' selectionChanged
UncuratedSelectionChanged ==
    /\ m_repoPath' = DisplayText(m_uncuratedReposModel, uncuratedCurrent')
    /\ lastWritten' = DisplayText(m_uncuratedReposModel, uncuratedCurrent')
    /\ UNCHANGED <<m_curatedReposModel, m_uncuratedReposModel, curatedCurrent, curatedSelected>>

\* the user clicks row `row` of the curated list (or moves to it with the
\* keyboard).  The view makes the row current and selects it; the selection
\* model emits selectionChanged only when the selection changed.
CuratedClick(row) ==
    /\ dialog = "open"
    /\ row \in 1..Len(m_curatedReposModel)
    /\ curatedCurrent' = row
    /\ curatedSelected' = row
    /\ IF curatedSelected # row
       THEN CuratedSelectionChanged
       ELSE UNCHANGED <<m_repoPath, lastWritten, m_curatedReposModel, m_uncuratedReposModel,
                        uncuratedCurrent, uncuratedSelected>>
    /\ lastEvent' = Event("click", "curated", row, "")
    /\ UNCHANGED <<dialog, curatedFile, uncuratedFile, platformVars>>

UncuratedClick(row) ==
    /\ dialog = "open"
    /\ row \in 1..Len(m_uncuratedReposModel)
    /\ uncuratedCurrent' = row
    /\ uncuratedSelected' = row
    /\ IF uncuratedSelected # row
       THEN UncuratedSelectionChanged
       ELSE UNCHANGED <<m_repoPath, lastWritten, m_curatedReposModel, m_uncuratedReposModel,
                        curatedCurrent, curatedSelected>>
    /\ lastEvent' = Event("click", "uncurated", row, "")
    /\ UNCHANGED <<dialog, curatedFile, uncuratedFile, platformVars>>

\* the user control-clicks the selected row of a single-selection view: the
\* row stays current, the selection becomes empty, selectionChanged is emitted
CuratedDeselect ==
    /\ dialog = "open"
    /\ curatedSelected # 0
    /\ curatedCurrent' = curatedSelected
    /\ curatedSelected' = 0
    /\ CuratedSelectionChanged
    /\ lastEvent' = Event("deselect", "curated", curatedSelected, "")
    /\ UNCHANGED <<dialog, curatedFile, uncuratedFile, platformVars>>

UncuratedDeselect ==
    /\ dialog = "open"
    /\ uncuratedSelected # 0
    /\ uncuratedCurrent' = uncuratedSelected
    /\ uncuratedSelected' = 0
    /\ UncuratedSelectionChanged
    /\ lastEvent' = Event("deselect", "uncurated", uncuratedSelected, "")
    /\ UNCHANGED <<dialog, curatedFile, uncuratedFile, platformVars>>

\* the user replaces the text of the path field
Edit(text) ==
    /\ dialog = "open"
    /\ m_repoPath' = text
    /\ lastWritten' = text
    /\ lastEvent' = Event("edit", "", 0, text)
    /\ UNCHANGED <<dialog, curatedFile, uncuratedFile, m_curatedReposModel, m_uncuratedReposModel,
                   curatedCurrent, curatedSelected, uncuratedCurrent, uncuratedSelected,
                   platformVars>>

\* connect(applyButton, clicked, accept) and connect(cancelButton, clicked, reject).
\* (Escape and the window's close button end a QDialog through reject() as well.)
MutAddRejects == "rejected"
AddClicked == "accepted"
CancelClicked == "rejected"

ClickAdd ==
    /\ dialog = "open"
    /\ dialog' = AddClicked
    /\ lastEvent' = Event("add", "", 0, "")
    /\ UNCHANGED <<curatedFile, uncuratedFile, m_curatedReposModel, m_uncuratedReposModel,
                   curatedCurrent, curatedSelected, uncuratedCurrent, uncuratedSelected,
                   m_repoPath, lastWritten, platformVars>>

ClickCancel ==
    /\ dialog = "open"
    /\ dialog' = CancelClicked
    /\ lastEvent' = Event("cancel", "", 0, "")
    /\ UNCHANGED <<curatedFile, uncuratedFile, m_curatedReposModel, m_uncuratedReposModel,
                   curatedCurrent, curatedSelected, uncuratedCurrent, uncuratedSelected,
                   m_repoPath, lastWritten, platformVars>>

\* the caller reads the result, while the dialog is open or after it closed
CallGetRepoPath ==
    /\ dialog # "new"
    /\ lastEvent' = Event("get", "", 0, GetRepoPath)
    /\ UNCHANGED <<dialog, curatedFile, uncuratedFile, m_curatedReposModel, m_uncuratedReposModel,
                   curatedCurrent, curatedSelected, uncuratedCurrent, uncuratedSelected,
                   m_repoPath, lastWritten, platformVars>>

PlatformIdle ==
    /\ platformStrings = <<>>
    /\ platformCall = [op |-> "none", text |-> "", flag |-> 0]
    /\ platformResult = 0

NotConstructed ==
    /\ dialog = "new"
    /\ m_curatedReposModel = <<>> /\ m_uncuratedReposModel = <<>>
    /\ curatedCurrent = 0 /\ curatedSelected = 0
    /\ uncuratedCurrent = 0 /\ uncuratedSelected = 0
    /\ m_repoPath = "" /\ lastWritten = ""
    /\ lastEvent = Event("none", "", 0, "")

Init ==
    /\ curatedFile \in DialogFiles
    /\ uncuratedFile \in DialogFiles
    /\ NotConstructed
    /\ PlatformIdle

Next ==
    \/ Construct
    \/ \E row \in 1..Len(m_curatedReposModel) : CuratedClick(row)
    \/ \E row \in 1..Len(m_uncuratedReposModel) : UncuratedClick(row)
    \/ CuratedDeselect
    \/ UncuratedDeselect
    \/ \E text \in Typed : Edit(text)
    \/ ClickAdd
    \/ ClickCancel
    \/ CallGetRepoPath

Spec == Init /\ [][Next]_vars

(***************************************************************************)
(* The loading specification: the constructor alone, over every index      *)
(* array of at most MaxLen elements.                                       *)
(***************************************************************************)
\* what an index object may hold under its own key: any JSON value
CacheValues == {JString("not-an-array")}
               \cup {JOther(t) : t \in NonStringTypes \ {"Array"}}
               \cup {JArray(a) : a \in SeqsUpTo(Elements, MaxLen)}
\* index objects: any value under one key, nothing or a dialog value under the other
CacheObjects ==
    {[k \in {own} |-> v] : own \in Keys, v \in CacheValues}
    \cup UNION {{[k \in Keys |-> IF k = own THEN v ELSE w] : v \in CacheValues, w \in DialogValues}
                : own \in Keys}
CacheFiles == FailedFiles \cup {ObjectFile(EmptyObject)} \cup {ObjectFile(o) : o \in CacheObjects}

InitLoad ==
    /\ \/ curatedFile \in CacheFiles /\ uncuratedFile \in DialogFiles
       \/ curatedFile \in DialogFiles /\ uncuratedFile \in CacheFiles
    /\ NotConstructed
    /\ PlatformIdle

NextLoad == Construct

LoadSpec == InitLoad /\ [][NextLoad]_vars

(***************************************************************************)
(* GemInfo: the platform flags and their helpers (GemCatalog/GemInfo.h).   *)
(***************************************************************************)
\* enum Platform
Android == 1
iOS == 2
Linux == 4
macOS == 8
MutWindowsIsCount == 4 + 1
Windows == 16
NumPlatforms == 5

PlatformFlags == {Android, iOS, Linux, macOS, Windows}

\* operator| of Q_DECLARE_OPERATORS_FOR_FLAGS(GemInfo::Platforms)
RECURSIVE BitOr(_, _)
MutBitOrAdds(a, b) == a + b
BitOr(a, b) ==
    IF a = 0 THEN b
    ELSE IF b = 0 THEN a
    ELSE (IF a % 2 = 1 \/ b % 2 = 1 THEN 1 ELSE 0) + 2 * BitOr(a \div 2, b \div 2)

\* GetPlatformString: the label of one platform flag, the empty string for
\* any other value
GetPlatformString(platform) ==
    CASE platform = Android -> "Android"
      [] platform = iOS -> "iOS"
      [] platform = Linux -> "Linux"
      [] platform = macOS -> "macOS"
      [] platform = Windows -> "Windows"
      [] OTHER -> ""

\* GetPlatformFromString: the flag whose label the text is, no flag otherwise
GetPlatformFromString(platformText) ==
    IF \E p \in PlatformFlags : GetPlatformString(p) = platformText
    THEN CHOOSE p \in PlatformFlags : GetPlatformString(p) = platformText
    ELSE 0

\* GetPlatformsFromStringList: the union of the flags of the entries
RECURSIVE GetPlatformsFromStringList(_)
GetPlatformsFromStringList(list) ==
    IF list = <<>> THEN 0
    ELSE BitOr(GetPlatformFromString(Head(list)), GetPlatformsFromStringList(Tail(list)))

\* texts that are no platform's label
UnrecognizedTexts == {"", "Switch"}
PlatformTexts == {GetPlatformString(p) : p \in PlatformFlags} \cup UnrecognizedTexts

PlatformCall(op, text, flag) == [op |-> op, text |-> text, flag |-> flag]

CallGetPlatformsFromStringList ==
    /\ platformCall' = PlatformCall("list", "", 0)
    /\ platformResult' = GetPlatformsFromStringList(platformStrings)
    /\ UNCHANGED <<platformStrings, dialogVars>>

CallGetPlatformFromString(platformText) ==
    /\ platformCall' = PlatformCall("parse", platformText, 0)
    /\ platformResult' = GetPlatformFromString(platformText)
    /\ UNCHANGED <<platformStrings, dialogVars>>

\* GetPlatformFromString(GetPlatformString(platform))
CallRoundTrip(platform) ==
    /\ platformCall' = PlatformCall("roundtrip", GetPlatformString(platform), platform)
    /\ platformResult' = GetPlatformFromString(GetPlatformString(platform))
    /\ UNCHANGED <<platformStrings, dialogVars>>

InitPlatform ==
    /\ platformStrings \in SeqsUpTo(PlatformTexts, MaxList)
    /\ platformCall = PlatformCall("none", "", 0)
    /\ platformResult = 0
    /\ curatedFile = MissingFile
    /\ uncuratedFile = MissingFile
    /\ NotConstructed

NextPlatform ==
    \/ CallGetPlatformsFromStringList
    \/ \E platformText \in PlatformTexts : CallGetPlatformFromString(platformText)
    \/ \E platform \in PlatformFlags : CallRoundTrip(platform)

PlatformSpec == InitPlatform /\ [][NextPlatform]_vars

(***************************************************************************)
(* Properties.                                                             *)
(***************************************************************************)
Models == <<m_curatedReposModel, m_uncuratedReposModel>>
ModelOf(list) == IF list = "curated" THEN m_curatedReposModel ELSE m_uncuratedReposModel

\* the file opens and parses to an object whose `key` field is an array
HasArrayField(file, key) ==
    /\ file.kind = "text"
    /\ file.content.type = "object"
    /\ key \in DOMAIN file.content.obj
    /\ file.content.obj[key].type = "Array"
ArrayField(file, key) == file.content.obj[key].items
\* ... an array of strings
HasStringArrayField(file, key) ==
    /\ HasArrayField(file, key)
    /\ \A i \in DOMAIN ArrayField(file, key) : ArrayField(file, key)[i].type = "String"

\* the four failure kinds of a cache file
FileMissing(file) == file.kind = "missing"
FileUnreadable(file) == file.kind = "unreadable"
NotJson(file) == file.kind = "text" /\ file.content.type = "invalid"
ShapeMismatch(file, key) ==
    /\ file.kind = "text"
    /\ file.content.type # "invalid"
    /\ ~HasArrayField(file, key)
Failed(file, key) ==
    FileMissing(file) \/ FileUnreadable(file) \/ NotJson(file) \/ ShapeMismatch(file, key)

\* C1: after construction, a list whose cache file parses to an object with
\* an array of strings under the list's key holds exactly those strings, one
\* row per element, in array order.
ExactlyTheStrings(model, file, key) ==
    /\ Len(model) = Len(ArrayField(file, key))
    /\ \A i \in DOMAIN model : model[i] = ArrayField(file, key)[i].str
C1_ListsHoldTheStrings ==
    dialog # "new" =>
        /\ HasStringArrayField(curatedFile, "curated")
              => ExactlyTheStrings(m_curatedReposModel, curatedFile, "curated")
        /\ HasStringArrayField(uncuratedFile, "uncurated")
              => ExactlyTheStrings(m_uncuratedReposModel, uncuratedFile, "uncurated")
C1_Witness ==
    /\ dialog = "open"
    /\ HasStringArrayField(curatedFile, "curated")
    /\ HasStringArrayField(uncuratedFile, "uncurated")
    /\ m_curatedReposModel = <<"a", " b ">>
    /\ m_uncuratedReposModel = <<" b ", "a">>

\* C2: whatever way a cache file fails (missing, unreadable, not JSON, field
\* absent or no array), construction completes with the dialog open, the
\* list of that file is empty, and the path field takes whatever the user
\* types, which GetRepoPath then returns.
C2_FailuresLeaveListEmpty ==
    /\ dialog = "new" => ENABLED Construct
    /\ lastEvent.kind = "construct" => dialog = "open"
    /\ dialog # "new" =>
        /\ Failed(curatedFile, "curated") => m_curatedReposModel = <<>>
        /\ Failed(uncuratedFile, "uncurated") => m_uncuratedReposModel = <<>>
    /\ dialog = "open" => \A text \in Typed : ENABLED Edit(text)
    /\ lastEvent.kind = "edit" => GetRepoPath = lastEvent.text
C2_Witness ==
    /\ FileMissing(curatedFile)
    /\ ShapeMismatch(uncuratedFile, "uncurated")
    /\ "uncurated" \in DOMAIN uncuratedFile.content.obj
    /\ m_curatedReposModel = <<>> /\ m_uncuratedReposModel = <<>>
    /\ lastEvent.kind = "edit"
    /\ GetRepoPath = " x "

\* C3: whenever the user selects (clicks) a row of either list, the path
\* field's text right afterwards is that row's display text.
\* (Fails: a click on the row that is already the list's selection emits no
\* selectionChanged, so a text typed or taken from the other list since then
\* stays in the field.)
C3_SelectionSetsPath ==
    lastEvent.kind = "click" =>
        m_repoPath = DisplayText(ModelOf(lastEvent.list), lastEvent.row)

\* C4: a step that changes one list's selection leaves the other list's
\* selected row, current row and rows as they were, and writes nothing but
\* the path field besides the clicked list's own selection.
C4_OtherListUnchanged ==
    [][/\ curatedSelected' # curatedSelected
            => UNCHANGED <<uncuratedCurrent, uncuratedSelected, Models, dialog,
                           curatedFile, uncuratedFile>>
       /\ uncuratedSelected' # uncuratedSelected
            => UNCHANGED <<curatedCurrent, curatedSelected, Models, dialog,
                           curatedFile, uncuratedFile>>]_vars
C4_Witness ==
    /\ lastEvent.kind = "click"
    /\ lastEvent.list = "curated"
    /\ curatedSelected = 2
    /\ uncuratedSelected = 1
    /\ m_repoPath = DisplayText(m_curatedReposModel, 2)

\* C5: GetRepoPath returns the text last written into the path field, as it
\* was written (white space and the empty string included), and a call
\* changes nothing of the dialog.
C5_GetRepoPathVerbatim ==
    /\ [](dialog # "new" => GetRepoPath = lastWritten)
    /\ [](lastEvent.kind = "get" => lastEvent.text = lastWritten)
    /\ [][lastEvent'.kind = "get"
            => UNCHANGED <<dialog, Models, curatedCurrent, curatedSelected,
                           uncuratedCurrent, uncuratedSelected, m_repoPath>>]_vars
C5_Witness ==
    /\ lastEvent.kind = "get"
    /\ lastEvent.text = " x "
    /\ curatedSelected # 0

\* C6: the dialog stays open until Add or Cancel is clicked; Add ends it
\* accepted and Cancel ends it rejected; neither changes the path field, and
\* GetRepoPath read after the dialog closed returns the text of that moment.
C6_AcceptReject ==
    [][/\ dialog = "open" /\ lastEvent'.kind \notin {"add", "cancel"} => dialog' = "open"
       /\ dialog = "open" /\ lastEvent'.kind = "add" => dialog' = "accepted"
       /\ dialog = "open" /\ lastEvent'.kind = "cancel" => dialog' = "rejected"
       /\ lastEvent'.kind \in {"add", "cancel"} => m_repoPath' = m_repoPath
       /\ dialog \in {"accepted", "rejected"}
            => /\ dialog' = dialog
               /\ m_repoPath' = m_repoPath
               /\ lastEvent'.kind = "get" => lastEvent'.text = m_repoPath]_vars
C6_Witness ==
    /\ dialog = "accepted"
    /\ lastEvent.kind = "get"
    /\ lastEvent.text = " x "

\* C7: parsing the label of a platform flag gives back exactly that single
\* flag, and parsing a text that is no platform's label gives no bits.
IsSingleFlag(flags) == \E i \in 0..(NumPlatforms - 1) : flags = 2 ^ i
RECURSIVE SumOf(_)
SumOf(flags) ==
    IF flags = {} THEN 0
    ELSE LET f == CHOOSE f \in flags : TRUE IN f + SumOf(flags \ {f})
RowsMatchArray(model, file, key) ==
    HasArrayField(file, key) =>
        /\ Len(model) = Len(ArrayField(file, key))
        /\ \A i \in DOMAIN model :
              ArrayField(file, key)[i].type # "String" => model[i] = ""
ClickedNonString(file, key) ==
    /\ HasArrayField(file, key)
    /\ lastEvent.kind = "click"
    /\ lastEvent.list = key
    /\ lastEvent.row \in DOMAIN ArrayField(file, key)
    /\ ArrayField(file, key)[lastEvent.row].type # "String"
C9_OneRowPerElement ==
    dialog # "new" =>
        /\ RowsMatchArray(m_curatedReposModel, curatedFile, "curated")
        /\ RowsMatchArray(m_uncuratedReposModel, uncuratedFile, "uncurated")
        /\ ClickedNonString(curatedFile, "curated") => m_repoPath = ""
        /\ ClickedNonString(uncuratedFile, "uncurated") => m_repoPath = ""

\* C10: each list is determined by its own file and its own key alone, and
\* once the dialog is constructed no step changes the rows of either list.
RowsOf(file, key) ==
    IF HasArrayField(file, key)
    THEN [i \in DOMAIN ArrayField(file, key) |->
            IF ArrayField(file, key)[i].type = "String" THEN ArrayField(file, key)[i].str ELSE ""]
    ELSE <<>>
C10_ListsIndependentAndFixed ==
    /\ [](dialog # "new" =>
            /\ m_curatedReposModel = RowsOf(curatedFile, "curated")
            /\ m_uncuratedReposModel = RowsOf(uncuratedFile, "uncurated"))
    /\ [][dialog # "new" => UNCHANGED Models]_vars
C10_Witness ==
    /\ dialog = "rejected"
    /\ HasArrayField(curatedFile, "curated")
    /\ HasArrayField(curatedFile, "uncurated")
    /\ ArrayField(curatedFile, "curated") # ArrayField(curatedFile, "uncurated")
    /\ NotJson(uncuratedFile)
    /\ m_curatedReposModel # <<>>
    /\ m_uncuratedReposModel = <<>>
    /\ curatedSelected # 0

====
